---- MODULE Spec2Model ----
(***************************************************************************)
(* A model of the Catenary class of local_module/caternary_py/bubble_cosh.py *)
(* (the class is repeated verbatim in apps/caternary.py).                  *)
(*                                                                         *)
(* Python floats are modelled as radix-10 floating-point numbers with a    *)
(* Digits-digit significand, round-half-even, overflow to infinity and     *)
(* the exceptions Python raises (ZeroDivisionError on a zero divisor,      *)
(* OverflowError from math.cosh / math.sinh).  The significand is shorter  *)
(* than that of an IEEE double so that products fit in the integers of the *)
(* model checker; every operation rounds, so identities that hold only in  *)
(* exact arithmetic can be refuted.  In radix 10 the step 0.1 and its      *)
(* multiples are exact, where a double leaves a residue of about 1e-16.    *)
(***************************************************************************)
EXTENDS Integers, Sequences, FiniteSets, TLC

(***************************************************************************)
(* float: finite values are [m, e] meaning m * 10^e with m = 0 (and e = 0) *)
(* or 10^(Digits-1) <= |m| < 10^Digits; e = InfE marks +-inf (m = +-1)     *)
(* and nan (m = 0).                                                        *)
(***************************************************************************)
Digits == 4

\* largest and smallest exponent of a finite nonzero value (about 1e308 and
\* 1e-324 for a double)
MaxE == 305

MinE == -327

InfE == MaxE + 1

Powers == <<1, 10, 100, 1000, 10000, 100000, 1000000, 10000000, 100000000,
            1000000000>>

Pow10(n) == Powers[n + 1]

NumDigits(v) ==
    IF v < 10000
    THEN (IF v < 100 THEN (IF v < 10 THEN 1 ELSE 2)
          ELSE (IF v < 1000 THEN 3 ELSE 4))
    ELSE IF v < 1000000 THEN (IF v < 100000 THEN 5 ELSE 6)
    ELSE IF v < 100000000 THEN (IF v < 10000000 THEN 7 ELSE 8)
    ELSE IF v < 1000000000 THEN 9 ELSE 10

IAbs(n) == IF n < 0 THEN -n ELSE n

ISign(n) == IF n < 0 THEN -1 ELSE 1

Zero == [m |-> 0, e |-> 0]

PosInf == [m |-> 1, e |-> InfE]

NegInf == [m |-> -1, e |-> InfE]

NaN == [m |-> 0, e |-> InfE]

IsNaN(x) == x.e = InfE /\ x.m = 0

IsInf(x) == x.e = InfE /\ x.m # 0

IsFinite(x) == x.e # InfE

\* m * 10^e for a significand of Digits digits: overflow to inf, underflow to 0
Pack(m, e) ==
    IF e > MaxE THEN (IF m > 0 THEN PosInf ELSE NegInf)
    ELSE IF e < MinE THEN Zero
    ELSE [m |-> m, e |-> e]

\* round half to even: q with the dropped digits r, half a unit being half
RoundUp(q, r, half, sticky) ==
    IF r > half \/ (r = half /\ (sticky \/ q % 2 = 1)) THEN q + 1 ELSE q

\* the rounded significand q1 may have reached 10^Digits
Carry(s, q1, e) ==
    IF q1 = Pow10(Digits) THEN Pack(s * Pow10(Digits - 1), e + 1)
    ELSE Pack(s * q1, e)

\* n has Digits + d digits
RoundDigits(n, e, sticky, d) ==
    IF d <= 0 THEN Pack(n * Pow10(-d), e + d)
    ELSE Carry(ISign(n),
               RoundUp(IAbs(n) \div Pow10(d), IAbs(n) % Pow10(d),
                       5 * Pow10(d - 1), sticky),
               e + d)

\* the float nearest to n * 10^e (ties to even); sticky says that the exact
\* value has further nonzero digits below n's last one
Round(n, e, sticky) ==
    IF n = 0 THEN Zero
    ELSE RoundDigits(n, e, sticky, NumDigits(IAbs(n)) - Digits)

FNeg(x) == [m |-> -x.m, e |-> x.e]

FAbs(x) == [m |-> IAbs(x.m), e |-> x.e]

\* hi + lo for finite nonzero hi, lo with hi.e >= lo.e
AddAligned(hi, lo) ==
    IF hi.e - lo.e > Digits + 1 THEN hi
    ELSE Round(hi.m * Pow10(hi.e - lo.e) + lo.m, lo.e, FALSE)

FAdd(x, y) ==
    IF IsNaN(x) \/ IsNaN(y) THEN NaN
    ELSE IF IsInf(x) THEN (IF IsInf(y) /\ y.m # x.m THEN NaN ELSE x)
    ELSE IF IsInf(y) THEN y
    ELSE IF x.m = 0 THEN y
    ELSE IF y.m = 0 THEN x
    ELSE IF x.e >= y.e THEN AddAligned(x, y)
    ELSE AddAligned(y, x)

FSub(x, y) == FAdd(x, FNeg(y))

FMul(x, y) ==
    IF IsNaN(x) \/ IsNaN(y) THEN NaN
    ELSE IF IsInf(x) \/ IsInf(y)
         THEN (IF x.m = 0 \/ y.m = 0 THEN NaN
               ELSE IF ISign(x.m) = ISign(y.m) THEN PosInf ELSE NegInf)
    ELSE Round(x.m * y.m, x.e + y.e, FALSE)

\* x / y for y # 0 (Python raises ZeroDivisionError for y = 0: see DivRaises)
FDiv(x, y) ==
    IF IsNaN(x) \/ IsNaN(y) THEN NaN
    ELSE IF IsInf(x) THEN (IF IsInf(y) THEN NaN
                           ELSE IF ISign(x.m) = ISign(y.m) THEN PosInf ELSE NegInf)
    ELSE IF IsInf(y) \/ x.m = 0 THEN Zero
    ELSE Round(ISign(x.m) * ISign(y.m)
                  * ((IAbs(x.m) * Pow10(Digits + 1)) \div IAbs(y.m)),
               x.e - y.e - (Digits + 1),
               (IAbs(x.m) * Pow10(Digits + 1)) % IAbs(y.m) # 0)

DivRaises(y) == y = Zero

\* x < y; every comparison with nan is false
FLess(x, y) ==
    IF IsNaN(x) \/ IsNaN(y) THEN FALSE
    ELSE IF ISign(x.m) # ISign(y.m) \/ x.m = 0 \/ y.m = 0 THEN x.m < y.m
    ELSE IF x.m > 0 THEN x.e < y.e \/ (x.e = y.e /\ x.m < y.m)
    ELSE x.e > y.e \/ (x.e = y.e /\ x.m < y.m)

FGreater(x, y) == FLess(y, x)

FLessEq(x, y) == ~IsNaN(x) /\ ~IsNaN(y) /\ ~FLess(y, x)

\* float(i) for a small int i
FromInt(i) == Round(i, 0, FALSE)

One == [m |-> 1000, e |-> -3]

Two == [m |-> 2000, e |-> -3]

Ten == [m |-> 1000, e |-> -2]

\* math.pi
Pi == [m |-> 3142, e |-> -3]

\* the outcome of an expression that may raise
Ok(v) == [raised |-> "none", value |-> v]

Exc(name) == [raised |-> name, value |-> Zero]

(***************************************************************************)
(* The C library's exp, cosh and sinh.  Up to |x| = 10 the power series is *)
(* summed until a term no longer changes the sum.  Beyond, exp(x) is       *)
(* reduced by exp(x) = exp(x/2)^2 and cosh, sinh are (exp(x) +- 1/exp(x))/2;*)
(* a result beyond the largest float is inf, which math.cosh and math.sinh *)
(* turn into OverflowError when the argument is finite.                    *)
(***************************************************************************)
\* sum plus the terms after term: term * x2^j / ((n+1)...(n+2j)), j >= 1
RECURSIVE Series(_, _, _, _)
SeriesAdd(x2, n, t, sum, s) ==
    IF s = sum THEN sum ELSE Series(x2, n + 2, t, s)

SeriesTerm(x2, n, t, sum) == SeriesAdd(x2, n, t, sum, FAdd(sum, t))

Series(x2, n, term, sum) ==
    SeriesTerm(x2, n, FDiv(FMul(term, x2), FromInt((n + 1) * (n + 2))), sum)

Square(h) == FMul(h, h)

\* an argument past which e^x is beyond MaxE whatever its rounding
ExpOverflows(x) == FGreater(x, [m |-> 1000, e |-> 0])

RECURSIVE Exp(_)
Exp(x) ==
    IF IsNaN(x) THEN NaN
    ELSE IF IsInf(x) \/ ExpOverflows(x) THEN PosInf
    ELSE IF FLessEq(x, Ten)
         THEN FAdd(Series(FMul(x, x), 0, One, One), Series(FMul(x, x), 1, x, x))
    ELSE Square(Exp(FDiv(x, Two)))

\* (E + 1/E) / 2 and (E - 1/E) / 2
HalfSum(E) == FDiv(FAdd(E, FDiv(One, E)), Two)

HalfDiff(E) == FDiv(FSub(E, FDiv(One, E)), Two)

CoshValue(x) ==
    IF IsNaN(x) THEN NaN
    ELSE IF FLessEq(FAbs(x), Ten) THEN Series(FMul(x, x), 0, One, One)
    ELSE HalfSum(Exp(FAbs(x)))

SinhValue(x) ==
    IF IsNaN(x) THEN NaN
    ELSE IF FLessEq(FAbs(x), Ten) THEN Series(FMul(x, x), 1, x, x)
    ELSE IF x.m < 0 THEN FNeg(HalfDiff(Exp(FAbs(x))))
    ELSE HalfDiff(Exp(FAbs(x)))

\* math.cosh(x) and math.sinh(x) raise OverflowError ("math range error")
\* when the result c overflows for a finite x
RangeChecked(x, c) ==
    IF IsFinite(x) /\ IsInf(c) THEN Exc("OverflowError") ELSE Ok(c)

try_cosh(x) == RangeChecked(x, CoshValue(x))

try_sinh(x) == RangeChecked(x, SinhValue(x))

\* math.ceil(x) for a finite x of moderate size: an int
Ceil(x) ==
    IF x.e >= 0 THEN x.m * Pow10(x.e)
    ELSE IF -x.e > Digits THEN (IF x.m > 0 THEN 1 ELSE 0)
    ELSE -((-x.m) \div Pow10(-x.e))

\* format(x, ".<places>f"): x rounded to that many decimals, as the decimal
\* [m, e] the string spells (e >= -places)
Fmt(x, places) ==
    IF ~IsFinite(x) \/ x.e >= -places THEN x
    ELSE IF -places - x.e > Digits THEN [m |-> 0, e |-> -places]
    ELSE [m |-> ISign(x.m) * RoundUp(IAbs(x.m) \div Pow10(-places - x.e),
                                     IAbs(x.m) % Pow10(-places - x.e),
                                     5 * Pow10(-places - x.e - 1), FALSE),
          e |-> -places]

(***************************************************************************)
(* class Catenary                                                          *)
(***************************************************************************)
INF == [m |-> 1000, e |-> 9]

DEFAULT_A == One

DEFAULT_B == One

DEFAULT_STEP == [m |-> 1000, e |-> -4]

STEP_REDUCTION_FACTOR == Ten

DEFAULT_PRECISION == [m |-> 1000, e |-> -10]

VARIABLES
    pc,         \* "new": no instance yet; "idle": no call running;
                \* "loop": fit_parameters at its while test; "break": left by break
    self,       \* the instance: diameter, span, a, b
    precision,  \* fit_parameters' locals
    step,
    error,
    a,
    b,
    improved,   \* the last iteration's improved flag
    iterations, \* how many times the while body has run in this call
    scanned,    \* the candidates the last iteration evaluated, in scan order
    ret,        \* the last finished call: its name, arguments, what it
                \* returned or raised
    fitted,     \* a fit_parameters call has returned
    objs,       \* two instances that concurrent calls work on
    threads,    \* the fit_parameters call of each thread: its position, the
                \* instance it runs on, its locals and what it returned
    alone,      \* what fit_parameters returns when it runs alone, by
                \* instance and precision
    build,      \* a run of build.py: its configuration, its position and
                \* the build_target calls made so far
    nb          \* a run of auto_inline_notebook: the notebook's lines, the
                \* cell starts and the replacements still to apply

vars ==
    <<pc, self, precision, step, error, a, b, improved, iterations, scanned,
      ret, fitted, objs, threads, alone, build, nb>>

\* the state of the build script and of the inlining script
tools == <<build, nb>>

\* neither script is running
NoBuild == [pc |-> "off"]

NoNotebook == [pc |-> "off"]

\* the state of the concurrent calls
par == <<objs, threads, alone>>

\* the state of the single caller
seq ==
    <<pc, self, precision, step, error, a, b, improved, iterations, scanned,
      ret, fitted>>

locals == <<precision, step, error, a, b, improved, iterations, scanned>>

\* variant of __init__ that starts the parameters at zero
InitAtZero(diameter, span) ==
    [diameter |-> diameter, span |-> span, a |-> Zero, b |-> Zero]

__init__(diameter, span) ==
    [diameter |-> diameter, span |-> span, a |-> DEFAULT_A, b |-> DEFAULT_B]

\* variant of BoundaryTerms that leaves out the error at x = span
BoundaryFirstOnly(obj, ca, c1, c2) ==
    IF c1.raised # "none" THEN c1
    ELSE Ok(FAbs(FSub(FMul(ca, c1.value), FDiv(obj.diameter, Two))))

\* lines 36-40 once both cosh calls are made
BoundaryTerms(obj, ca, c1, c2) ==
    IF c1.raised # "none" THEN c1
    ELSE IF c2.raised # "none" THEN c2
    ELSE Ok(FAdd(FAbs(FSub(FMul(ca, c1.value), FDiv(obj.diameter, Two))),
                 FAbs(FSub(FMul(ca, c2.value), FDiv(obj.diameter, Two)))))

\* the try block of _boundary_error: the exception it raises ("none" if it
\* completes) and the value it then returns
try_boundary_error(obj, ca, cb) ==
    IF DivRaises(ca) THEN Exc("ZeroDivisionError")
    ELSE BoundaryTerms(obj, ca,
                       try_cosh(FDiv(FSub(Zero, cb), ca)),
                       try_cosh(FDiv(FSub(obj.span, cb), ca)))

\* variant of Recover that scores a failed evaluation as a perfect fit
RecoverAsZero(t) == IF t.raised # "none" THEN Zero ELSE t.value

\* lines 41-42: except Exception: return self.INF
Recover(t) == IF t.raised # "none" THEN INF ELSE t.value

_boundary_error(obj, ca, cb) == Recover(try_boundary_error(obj, ca, cb))

\* lines 65-66: the candidates in scan order, a outer, b inner
Grid(as, bs) ==
    [i \in 1..9 |-> [a |-> as[((i - 1) \div 3) + 1], b |-> bs[((i - 1) % 3) + 1]]]

Candidates(ca, cb, st) ==
    Grid(<<FSub(ca, st), ca, FAdd(ca, st)>>, <<FSub(cb, st), cb, FAdd(cb, st)>>)

\* a candidate with its candidate_error and the exception recovered from
Scored(c, t) == [a |-> c.a, b |-> c.b, error |-> Recover(t), raised |-> t.raised]

EvalCandidate(obj, c) == Scored(c, try_boundary_error(obj, c.a, c.b))

\* variant of Evaluate that abandons the scan at the first candidate whose
\* evaluation fails
FirstInvalidOrLast(evals) ==
    IF \E i \in DOMAIN evals : evals[i].raised # "none"
    THEN CHOOSE i \in DOMAIN evals :
            /\ evals[i].raised # "none"
            /\ \A j \in 1..(i - 1) : evals[j].raised = "none"
    ELSE Len(evals)

Truncated(evals) == SubSeq(evals, 1, FirstInvalidOrLast(evals))

EvaluateUntilInvalid(obj, cands) ==
    Truncated([i \in DOMAIN cands |-> EvalCandidate(obj, cands[i])])

Evaluate(obj, cands) == [i \in DOMAIN cands |-> EvalCandidate(obj, cands[i])]

\* variant of Better that also takes a candidate that is only as good
NotWorse(candidate_error, best_error) == FLessEq(candidate_error, best_error)

\* variant of Better that takes no candidate
NeverBetter(candidate_error, best_error) == FALSE

\* line 68: candidate_error < best_error
Better(candidate_error, best_error) == FLess(candidate_error, best_error)

\* variant of Adopt that takes every candidate, better or not
AdoptAlways(best, c) ==
    [error |-> c.error, a |-> c.a, b |-> c.b, improved |-> TRUE]

\* lines 68-71
Adopt(best, c) ==
    IF Better(c.error, best.error)
    THEN [error |-> c.error, a |-> c.a, b |-> c.b, improved |-> TRUE]
    ELSE best

\* the two for loops: the running best after the first n candidates
RECURSIVE ScanBest(_, _, _)
ScanBest(evals, n, start) ==
    IF n = 0 THEN start ELSE Adopt(ScanBest(evals, n - 1, start), evals[n])

\* variant of ReduceStep that leaves the step as it is
KeepStep(st) == st

\* variant of ReduceStep that drops the step to zero at once
DropStep(st) == Zero

\* line 74: step /= STEP_REDUCTION_FACTOR
ReduceStep(st) == FDiv(st, STEP_REDUCTION_FACTOR)

\* variant of Searching that scans on whatever the error
SearchingAlways(err, prec) == TRUE

\* line 60: while error > precision
Searching(err, prec) == FGreater(err, prec)

\* variant of StepUnderflow that gives up at the first shrink
StepBelowDefault(st, prec) == FLess(st, DEFAULT_STEP)

\* variant of StepUnderflow that also stops at a step equal to precision
StepAtOrBelow(st, prec) == FLessEq(st, prec)

\* line 75: if step < precision: break
StepUnderflow(st, prec) == FLess(st, prec)

\* variants of FitResult: the pair in the wrong order, and the defaults
FitResultSwapped(fa, fb) == <<fb, fa>>

FitResultDefaults(fa, fb) == <<DEFAULT_A, DEFAULT_B>>

\* what lines 81-82 store and return
FitResult(fa, fb) == <<fa, fb>>

(***************************************************************************)
(* The read-only methods, each as the outcome of its body.                 *)
(***************************************************************************)
\* a * math.cosh((x - b) / a), the expression of y and midpoint_radius
CurveValue(ca, c) == IF c.raised # "none" THEN c ELSE Ok(FMul(ca, c.value))

try_curve(ca, cb, x) ==
    IF DivRaises(ca) THEN Exc("ZeroDivisionError")
    ELSE CurveValue(ca, try_cosh(FDiv(FSub(x, cb), ca)))

y(obj, x) == try_curve(obj.a, obj.b, x)

AreaValue(obj, sh) ==
    IF sh.raised # "none" THEN sh
    ELSE Ok(FMul(FMul(Pi, FMul(obj.a, obj.a)),
                 FAdd(sh.value, FDiv(obj.span, obj.a))))

area_under_curve(obj) ==
    IF IsFinite(obj.a) /\ IsInf(FMul(obj.a, obj.a)) THEN Exc("OverflowError")
    ELSE IF DivRaises(obj.a) THEN Exc("ZeroDivisionError")
    ELSE AreaValue(obj, try_sinh(FDiv(obj.span, obj.a)))

midpoint_radius(obj) == try_curve(obj.a, obj.b, FDiv(obj.span, Two))

\* variant of DipValue with the subtraction reversed
DipReversed(obj, r) ==
    IF r.raised # "none" THEN r
    ELSE Ok(FSub(r.value, FDiv(obj.diameter, Two)))

DipValue(obj, r) ==
    IF r.raised # "none" THEN r ELSE Ok(FSub(FDiv(obj.diameter, Two), r.value))

midpoint_dip(obj) == DipValue(obj, midpoint_radius(obj))

GapValue(r) == IF r.raised # "none" THEN r ELSE Ok(FMul(Two, r.value))

midpoint_gap(obj) == GapValue(midpoint_radius(obj))

\* the f-string of summary / describe: the first exception of its calls, or
\* the numbers the string spells
Formatted(obj, area, dip, gap, places, head) ==
    IF area.raised # "none" THEN area
    ELSE IF dip.raised # "none" THEN dip
    ELSE IF gap.raised # "none" THEN gap
    ELSE Ok([head |-> head,
             a |-> Fmt(obj.a, places), b |-> Fmt(obj.b, places),
             area |-> Fmt(area.value, places),
             dip |-> Fmt(dip.value, places),
             gap |-> Fmt(gap.value, places)])

summary(obj) ==
    Formatted(obj, area_under_curve(obj), midpoint_dip(obj), midpoint_gap(obj),
              7, <<obj.diameter, obj.span>>)

describe(obj) ==
    Formatted(obj, area_under_curve(obj), midpoint_dip(obj), midpoint_gap(obj),
              6, <<>>)

\* lines 155-158: the default x-axis range
DefaultXRange(obj) ==
    <<FNeg(FSub(obj.span, One)),
      FDiv(FromInt(Ceil(FMul(obj.span, Ten))), Ten)>>

\* line 160
XVals(obj, num_points) ==
    [i \in 1..num_points |->
        FDiv(FMul(FromInt(i - 1), obj.span), FromInt(num_points - 1))]

\* line 161
YVals(obj, x_vals) == [i \in DOMAIN x_vals |-> y(obj, x_vals[i])]

\* lines 163-185: the curve trace, the x-axis range and the endpoint markers
Figure(obj, x_vals, ys, x_range, show_endpoints) ==
    IF \E i \in DOMAIN ys : ys[i].raised # "none"
    THEN ys[CHOOSE i \in DOMAIN ys :
               ys[i].raised # "none" /\ \A j \in 1..(i - 1) : ys[j].raised = "none"]
    ELSE Ok([x |-> x_vals,
             y |-> [i \in DOMAIN ys |-> ys[i].value],
             xaxis |-> x_range,
             endpoints |-> IF show_endpoints
                           THEN << <<Zero, FDiv(obj.diameter, Two)>>,
                                   <<obj.span, FDiv(obj.diameter, Two)>> >>
                           ELSE <<>>])

Traced(obj, x_vals, x_range, show_endpoints) ==
    Figure(obj, x_vals, YVals(obj, x_vals), x_range, show_endpoints)

plot(obj, num_points, x_range_given, x_range, show_endpoints) ==
    IF num_points >= 1 /\ DivRaises(FromInt(num_points - 1))
    THEN Exc("ZeroDivisionError")
    ELSE Traced(obj, XVals(obj, num_points),
                IF x_range_given THEN x_range ELSE DefaultXRange(obj),
                show_endpoints)

(***************************************************************************)
(* The arguments callers pass.                                             *)
(***************************************************************************)
DiameterArgs == { [m |-> -1000, e |-> -3], [m |-> 2100, e |-> -5], One }

SpanArgs == { Zero, [m |-> 6000, e |-> -4] }

\* precision arguments 10^-1 .. 10^-MaxPrecisionDigits
MaxPrecisionDigits == 2

PrecisionArgs == { [m |-> 1000, e |-> -3 - k] : k \in 1..MaxPrecisionDigits }

\* a precision that the error of the starting point already meets: 10.0
LoosePrecisionArgs == { Ten }

XArgs == { Zero, [m |-> 3000, e |-> -4], [m |-> 6000, e |-> -4] }

\* arguments of a direct _boundary_error call: a at and near 0, and a = 1
CandidateAArgs ==
    { Zero, [m |-> 1000, e |-> -12], [m |-> 1000, e |-> -6],
      [m |-> 1000, e |-> -5], [m |-> -1000, e |-> -5], One }

CandidateBArgs == { Zero, One }

\* the iteration count is kept up to MaxIterations; the longest search of
\* the arguments above is shorter
MaxIterations == 40

\* plot's num_points is 1 .. MaxPoints
MaxPoints == 3

XRangeArg == <<[m |-> -1000, e |-> -3], One>>

(***************************************************************************)
(* The calls.                                                              *)
(***************************************************************************)
Finished(op, args, t) ==
    [op |-> op, args |-> args, raised |-> t.raised, val |-> t.value]

Init ==
    /\ pc = "new"
    /\ self = __init__(Zero, Zero)
    /\ precision = Zero /\ step = Zero /\ error = Zero /\ a = Zero /\ b = Zero
    /\ improved = FALSE /\ iterations = 0 /\ scanned = <<>>
    /\ ret = Finished("none", <<>>, Ok(Zero))
    /\ fitted = FALSE
    /\ objs = <<>> /\ threads = <<>> /\ alone = <<>>
    /\ build = NoBuild /\ nb = NoNotebook

Construct(diameter, span) ==
    /\ pc = "new"
    /\ self' = __init__(diameter, span)
    /\ pc' = "idle"
    /\ ret' = Finished("__init__", <<diameter, span>>, Ok(Zero))
    /\ UNCHANGED <<locals, fitted, par, tools>>

\* variant of StartPoint that resumes from the stored pair
StartFromStored(obj) == <<obj.a, obj.b>>

\* line 58: a, b = self.DEFAULT_A, self.DEFAULT_B
StartPoint(obj) == <<DEFAULT_A, DEFAULT_B>>

\* lines 54-58; given = FALSE is precision=None
fit_parameters_begin(given, p) ==
    /\ pc = "idle"
    /\ precision' = (IF given THEN p ELSE DEFAULT_PRECISION)
    /\ step' = DEFAULT_STEP
    /\ error' = INF
    /\ a' = StartPoint(self)[1]
    /\ b' = StartPoint(self)[2]
    /\ improved' = FALSE
    /\ iterations' = 0
    /\ scanned' = <<>>
    /\ pc' = "loop"
    /\ ret' = Finished("none", <<>>, Ok(Zero))
    /\ UNCHANGED <<self, fitted, par, tools>>

\* lines 73-79: the end of an iteration whose scan found best
Commit(best) ==
    IF ~best.improved
    THEN /\ step' = ReduceStep(step)
         /\ pc' = (IF StepUnderflow(ReduceStep(step), precision)
                   THEN "break" ELSE "loop")
         /\ UNCHANGED <<a, b, error>>
    ELSE /\ a' = best.a
         /\ b' = best.b
         /\ error' = best.error
         /\ pc' = "loop"
         /\ UNCHANGED step

\* lines 60-79: one iteration of the while loop
fit_parameters_iterate ==
    /\ pc = "loop"
    /\ Searching(error, precision)
    /\ iterations' = (IF iterations < MaxIterations THEN iterations + 1
                      ELSE iterations)
    /\ \E evals \in {Evaluate(self, Candidates(a, b, step))} :
          /\ scanned' = evals
          /\ \E best \in {ScanBest(evals, Len(evals),
                            [error |-> error, a |-> a, b |-> b, improved |-> FALSE])} :
                /\ improved' = best.improved
                /\ Commit(best)
    /\ UNCHANGED <<self, precision, ret, fitted, par, tools>>

\* lines 81-82, reached by the while test failing or by break
fit_parameters_return ==
    /\ \/ pc = "break"
       \/ pc = "loop" /\ ~Searching(error, precision)
    /\ self' = [self EXCEPT !.a = FitResult(a, b)[1], !.b = FitResult(a, b)[2]]
    /\ ret' = Finished("fit_parameters", <<precision>>, Ok(FitResult(a, b)))
    /\ pc' = "idle"
    /\ fitted' = TRUE
    /\ UNCHANGED <<locals, par, tools>>

\* a call of a read-only method: nothing but ret changes
Call(op, args, t) ==
    /\ pc = "idle"
    /\ ret' = Finished(op, args, t)
    /\ UNCHANGED <<pc, self, locals, fitted, par, tools>>

Query ==
    \/ \E x \in XArgs : Call("y", <<x>>, y(self, x))
    \/ Call("area_under_curve", <<>>, area_under_curve(self))
    \/ Call("midpoint_radius", <<>>, midpoint_radius(self))
    \/ Call("midpoint_dip", <<>>, midpoint_dip(self))
    \/ Call("midpoint_gap", <<>>, midpoint_gap(self))
    \/ Call("summary", <<>>, summary(self))
    \/ Call("describe", <<>>, describe(self))
    \/ \E n \in 1..MaxPoints, given \in BOOLEAN, show \in BOOLEAN :
          Call("plot", <<n, given, show>>, plot(self, n, given, XRangeArg, show))
    \/ \E ca \in CandidateAArgs, cb \in CandidateBArgs :
          Call("_boundary_error", <<ca, cb>>, Ok(_boundary_error(self, ca, cb)))

Next ==
    \/ \E d \in DiameterArgs, s \in SpanArgs : Construct(d, s)
    \/ fit_parameters_begin(FALSE, DEFAULT_PRECISION)
    \/ \E p \in PrecisionArgs \cup LoosePrecisionArgs :
          fit_parameters_begin(TRUE, p)
    \/ fit_parameters_iterate
    \/ fit_parameters_return
    \/ Query

Spec == Init /\ [][Next]_vars

\* the while body runs once more: what an iteration does to the count
LoopRuns ==
    /\ pc = "loop"
    /\ Searching(error, precision)
    /\ iterations < MaxIterations
    /\ iterations' = iterations + 1

\* the loop of fit_parameters is not interrupted: while the test at line 60
\* holds the body runs again, and the return at lines 81-82 is reached
FairSpec ==
    Spec /\ WF_iterations(LoopRuns) /\ WF_vars(fit_parameters_return)

(***************************************************************************)
(* Concurrent calls.  Two threads each make one fit_parameters call on one *)
(* of two instances.  A call's locals are its own; the instance is shared  *)
(* by the calls that run on it.  Threads switch between bytecodes, so the  *)
(* assignment self.a, self.b = a, b of line 81 is two stores.              *)
(***************************************************************************)
Threads == 1..2

Insts == 1..2

\* Catenary(1.0, 0.6) and Catenary(1.0, 0.0)
ParObjs == <<__init__(One, [m |-> 6000, e |-> -4]), __init__(One, Zero)>>

\* lines 60-79 run to the end without interruption
RECURSIVE Search(_, _, _, _, _, _)
Continue(obj, prec, st, best) ==
    IF best.improved
    THEN Search(obj, prec, st, best.error, best.a, best.b)
    ELSE IF StepUnderflow(ReduceStep(st), prec) THEN FitResult(best.a, best.b)
    ELSE Search(obj, prec, ReduceStep(st), best.error, best.a, best.b)

Search(obj, prec, st, err, ca, cb) ==
    IF ~Searching(err, prec) THEN FitResult(ca, cb)
    ELSE Continue(obj, prec, st,
                  ScanBest(Evaluate(obj, Candidates(ca, cb, st)), 9,
                           [error |-> err, a |-> ca, b |-> cb,
                            improved |-> FALSE]))

\* lines 54-82: the pair one whole call returns
fit_parameters(obj, prec) ==
    Search(obj, prec, DEFAULT_STEP, INF, DEFAULT_A, DEFAULT_B)

\* a thread that has not called yet
NotCalled ==
    [pc |-> "idle", obj |-> 1, precision |-> Zero, step |-> Zero,
     error |-> Zero, a |-> Zero, b |-> Zero, ret |-> <<>>]

\* variant of Target: every call works on the first instance
TargetFirst(th) == 1

\* the instance a call's self is bound to
Target(th) == th.obj

\* variant of StoreB that stores the first component of the pair
StoreBFromA(obj, pair) == [obj EXCEPT !.b = pair[1]]

\* line 81: the two attribute stores of self.a, self.b = a, b
StoreA(obj, pair) == [obj EXCEPT !.a = pair[1]]

StoreB(obj, pair) == [obj EXCEPT !.b = pair[2]]

ParInit ==
    /\ objs = ParObjs
    /\ threads = [t \in Threads |-> NotCalled]
    /\ alone = [i \in Insts |-> [p \in PrecisionArgs |->
                   fit_parameters(ParObjs[i], p)]]
    /\ build = NoBuild /\ nb = NoNotebook
    /\ pc = "new"
    /\ self = __init__(Zero, Zero)
    /\ precision = Zero /\ step = Zero /\ error = Zero /\ a = Zero /\ b = Zero
    /\ improved = FALSE /\ iterations = 0 /\ scanned = <<>>
    /\ ret = Finished("none", <<>>, Ok(Zero))
    /\ fitted = FALSE

\* lines 54-58 in thread t, called on instance i
par_begin(t, i, p) ==
    /\ threads[t].pc = "idle"
    /\ threads' = [threads EXCEPT ![t] =
                      [pc |-> "loop", obj |-> i, precision |-> p,
                       step |-> DEFAULT_STEP, error |-> INF,
                       a |-> DEFAULT_A, b |-> DEFAULT_B, ret |-> <<>>]]
    /\ UNCHANGED <<objs, alone, seq, tools>>

\* lines 73-79 on the locals th
Committed(th, best) ==
    IF ~best.improved
    THEN [th EXCEPT !.step = ReduceStep(th.step),
                    !.pc = IF StepUnderflow(ReduceStep(th.step), th.precision)
                           THEN "break" ELSE "loop"]
    ELSE [th EXCEPT !.a = best.a, !.b = best.b, !.error = best.error]

Scan(obj, th) ==
    ScanBest(Evaluate(obj, Candidates(th.a, th.b, th.step)), 9,
             [error |-> th.error, a |-> th.a, b |-> th.b, improved |-> FALSE])

\* lines 60-79 in thread t: one iteration
par_iterate(t) ==
    /\ threads[t].pc = "loop"
    /\ Searching(threads[t].error, threads[t].precision)
    /\ \E best \in {Scan(objs[Target(threads[t])], threads[t])} :
          threads' = [threads EXCEPT ![t] = Committed(threads[t], best)]
    /\ UNCHANGED <<objs, alone, seq, tools>>

\* line 81 in thread t: the loop has ended, self.a is stored
par_store_a(t) ==
    /\ \/ threads[t].pc = "break"
       \/ /\ threads[t].pc = "loop"
          /\ ~Searching(threads[t].error, threads[t].precision)
    /\ objs' = [objs EXCEPT ![Target(threads[t])] =
                   StoreA(@, FitResult(threads[t].a, threads[t].b))]
    /\ threads' = [threads EXCEPT ![t].pc = "store_b"]
    /\ UNCHANGED <<alone, seq, tools>>

\* lines 81-82 in thread t: self.b is stored and the pair returned
par_store_b(t) ==
    /\ threads[t].pc = "store_b"
    /\ objs' = [objs EXCEPT ![Target(threads[t])] =
                   StoreB(@, FitResult(threads[t].a, threads[t].b))]
    /\ threads' = [threads EXCEPT ![t].pc = "done",
                                  ![t].ret = FitResult(threads[t].a, threads[t].b)]
    /\ UNCHANGED <<alone, seq, tools>>

ParNext ==
    \E t \in Threads :
        \/ \E i \in Insts, p \in PrecisionArgs : par_begin(t, i, p)
        \/ par_iterate(t)
        \/ par_store_a(t)
        \/ par_store_b(t)

ParSpec == ParInit /\ [][ParNext]_vars

\* --------------------------------------------------------------------------
\* Properties
\* --------------------------------------------------------------------------

\* C1: over one iteration of the search loop the incumbent error never
\* increases; it strictly decreases when the incumbent (a, b) moves and is
\* unchanged when the step shrinks.
C1_MonotoneError ==
    [][(pc = "loop" /\ pc' \in {"loop", "break"}) =>
          /\ FLessEq(error', error)
          /\ (<<a', b'>> # <<a, b>> => FLess(error', error))
          /\ (step' # step => error' = error /\ <<a', b'>> = <<a, b>>)]_vars

\* an iteration has moved the incumbent after the step has already shrunk
C1_Witness ==
    /\ pc = "loop"
    /\ improved
    /\ FLess(step, DEFAULT_STEP)
    /\ FLess(error, INF)

\* C2: for diameter > 0 (span >= 0, precision > 0) a running fit_parameters
\* call always returns, and it returns with the incumbent error <= precision
\* or with a shrunk step < precision.
C2_Terminates ==
    (pc = "loop" /\ FGreater(self.diameter, Zero) /\ FGreater(precision, Zero))
        ~> (/\ pc = "idle"
            /\ ret.op = "fit_parameters"
            /\ iterations < MaxIterations
            /\ (FLessEq(error, precision) \/ FLess(step, precision)))

\* a fit for a positive diameter has returned converged, after shrinking
\* the step at least once
C2_Witness ==
    /\ pc = "idle"
    /\ ret.op = "fit_parameters"
    /\ FGreater(self.diameter, Zero)
    /\ FLessEq(error, precision)
    /\ FLess(step, DEFAULT_STEP)

\* C3: no instance with diameter <= 0 exists: construction with such a
\* diameter fails, so every constructed instance has diameter > 0.
C3_PositiveDiameter == pc # "new" => FGreater(self.diameter, Zero)

\* C4: _boundary_error called with a candidate a at or near 0 (|a| <= 0.01)
\* returns exactly the sentinel INF.
C4_Sentinel ==
    (ret.op = "_boundary_error"
        /\ FLessEq(FAbs(ret.args[1]), [m |-> 1000, e |-> -5]))
    => (ret.raised = "none" /\ ret.val = INF)

\* C5: in an iteration all nine candidates are evaluated, a candidate whose
\* evaluation raised is scored INF, the incumbent error is at most INF, and
\* an adopted incumbent is a candidate that did not raise, with an error
\* strictly below INF.
C5_InvalidCandidates ==
    (pc \in {"loop", "break"} /\ scanned # <<>>) =>
        /\ Len(scanned) = 9
        /\ \A i \in DOMAIN scanned :
              scanned[i].raised # "none" => scanned[i].error = INF
        /\ FLessEq(error, INF)
        /\ improved =>
              /\ FLess(error, INF)
              /\ \E i \in DOMAIN scanned :
                    /\ scanned[i].raised = "none"
                    /\ <<scanned[i].a, scanned[i].b>> = <<a, b>>
                    /\ scanned[i].error = error

\* an iteration met an invalid candidate and adopted one scanned after it
C5_Witness ==
    /\ pc = "loop"
    /\ improved
    /\ \E i \in DOMAIN scanned, j \in DOMAIN scanned :
          /\ i < j
          /\ scanned[i].raised # "none"
          /\ <<scanned[j].a, scanned[j].b, scanned[j].error>> = <<a, b, error>>

\* C6: a fit_parameters call that ends by step underflow, its error still
\* above precision, returns normally: the result is the incumbent pair, it
\* is stored, and nothing in the result tells it from a converged fit.
C6_SilentBestEffort ==
    (pc = "idle" /\ ret.op = "fit_parameters" /\ FGreater(error, precision)) =>
        /\ FLess(step, precision)
        /\ ret.raised = "none"
        /\ ret.val = <<a, b>>
        /\ <<self.a, self.b>> = <<a, b>>
        /\ DOMAIN ret.val = 1..2

\* a fit has returned by step underflow without reaching precision
C6_Witness ==
    /\ pc = "idle"
    /\ ret.op = "fit_parameters"
    /\ FGreater(error, precision)
    /\ FLess(step, precision)
    /\ self.a # DEFAULT_A

\* C7: once fit_parameters has returned, the pair it returned is the stored
\* pair and the final incumbent of the search, and y, midpoint_radius,
\* midpoint_dip, midpoint_gap and area_under_curve compute from that pair.
C7_FittedPair ==
    (pc = "idle" /\ fitted) =>
        /\ <<self.a, self.b>> = <<a, b>>
        /\ ret.op = "fit_parameters" =>
              ret.val = <<a, b>> /\ ret.val = <<self.a, self.b>>
        /\ ret.op = "y" =>
              ret.val = try_curve(a, b, ret.args[1]).value
        /\ ret.op = "midpoint_radius" =>
              ret.val = try_curve(a, b, FDiv(self.span, Two)).value
        /\ ret.op = "midpoint_dip" =>
              ret.val = midpoint_dip([self EXCEPT !.a = a, !.b = b]).value
        /\ ret.op = "midpoint_gap" =>
              ret.val = midpoint_gap([self EXCEPT !.a = a, !.b = b]).value
        /\ ret.op = "area_under_curve" =>
              ret.val = area_under_curve([self EXCEPT !.a = a, !.b = b]).value

\* a derived quantity has been read after a fit moved the parameters
C7_Witness ==
    /\ pc = "idle"
    /\ fitted
    /\ ret.op = "midpoint_dip"
    /\ ret.raised = "none"
    /\ <<self.a, self.b>> # <<DEFAULT_A, DEFAULT_B>>

\* C8: for diameter > 0 the scale a is strictly positive: the stored a is
\* DEFAULT_A until a fit returns, the incumbent a is > 0 at every iteration,
\* and the stored a is > 0 afterwards.
C8_PositiveScale ==
    (pc # "new" /\ FGreater(self.diameter, Zero)) =>
        /\ FGreater(self.a, Zero)
        /\ pc \in {"loop", "break"} => FGreater(a, Zero)
        /\ ~fitted => self.a = DEFAULT_A

\* the search for a positive diameter has scanned a candidate a <= 0
C8_Witness ==
    /\ pc = "loop"
    /\ FGreater(self.diameter, Zero)
    /\ scanned # <<>>
    /\ FLessEq(scanned[1].a, Zero)
    /\ FLess(a, DEFAULT_A)

\* C9: the stored (a, b) is the default pair until the first fit_parameters
\* call returns, only the return of fit_parameters changes it, the read-only
\* operations change nothing of the instance, and diameter and span never
\* change after construction.
C9_Frame ==
    [][/\ pc # "new" =>
             <<self'.diameter, self'.span>> = <<self.diameter, self.span>>
       /\ ~fitted' => <<self'.a, self'.b>> = <<DEFAULT_A, DEFAULT_B>>
       /\ <<self'.a, self'.b>> # <<self.a, self.b>> =>
             /\ pc \in {"loop", "break"}
             /\ pc' = "idle"
             /\ ret'.op = "fit_parameters"
       /\ (pc = "idle" /\ pc' = "idle") => self' = self]_vars

\* plot has run on an instance whose parameters a fit has moved
C9_Witness ==
    /\ pc = "idle"
    /\ fitted
    /\ ret.op = "plot"
    /\ ret.raised = "none"
    /\ <<self.a, self.b>> # <<DEFAULT_A, DEFAULT_B>>

\* C10 as stated: whenever the midpoint operations return, midpoint_gap is
\* exactly 2 * midpoint_radius and midpoint_dip + midpoint_radius is exactly
\* diameter / 2.
C10_Exact ==
    (pc = "idle" /\ midpoint_radius(self).raised = "none") =>
        /\ midpoint_gap(self).value = FMul(Two, midpoint_radius(self).value)
        /\ FAdd(midpoint_dip(self).value, midpoint_radius(self).value)
              = FDiv(self.diameter, Two)

\* C10: whenever the midpoint operations return, midpoint_gap is exactly
\* 2 * midpoint_radius and midpoint_dip is the rounded difference
\* diameter / 2 - midpoint_radius; midpoint_dip + midpoint_radius is exactly
\* diameter / 2 when diameter / 2 and midpoint_radius are within a factor of
\* two of each other (the difference is then exact).
C10_Midpoint ==
    (pc = "idle" /\ midpoint_radius(self).raised = "none") =>
        /\ midpoint_gap(self).value = FMul(Two, midpoint_radius(self).value)
        /\ midpoint_dip(self).value
              = FSub(FDiv(self.diameter, Two), midpoint_radius(self).value)
        /\ (/\ FLessEq(midpoint_radius(self).value, self.diameter)
            /\ FLessEq(FDiv(self.diameter, Two),
                       FMul(Two, midpoint_radius(self).value)))
           => FAdd(midpoint_dip(self).value, midpoint_radius(self).value)
                 = FDiv(self.diameter, Two)

\* a fitted instance whose midpoint radius is within a factor of two of
\* diameter / 2 and differs from it
C10_Witness ==
    /\ pc = "idle"
    /\ fitted
    /\ midpoint_radius(self).raised = "none"
    /\ FLessEq(midpoint_radius(self).value, self.diameter)
    /\ FLessEq(FDiv(self.diameter, Two), FMul(Two, midpoint_radius(self).value))
    /\ midpoint_dip(self).value # Zero

C13_ZeroSpan ==
    /\ [](( /\ pc = "idle"
            /\ ret.op = "fit_parameters"
            /\ self.span = Zero
            /\ FGreater(self.diameter, Zero))
          => /\ ret.raised = "none"
             /\ ret.val = <<self.a, self.b>>
             /\ IsFinite(self.a) /\ IsFinite(self.b)
             /\ y(self, Zero).raised = "none"
             /\ y(self, Zero) = y(self, self.span)
             /\ error = _boundary_error(self, self.a, self.b)
             /\ error = FMul(Two, FAbs(FSub(
                           FMul(self.a, CoshValue(FDiv(self.b, self.a))),
                           FDiv(self.diameter, Two)))))
    /\ (pc = "loop" /\ self.span = Zero /\ FGreater(self.diameter, Zero))
          ~> (pc = "idle" /\ ret.op = "fit_parameters")

\* a fit for span 0 has returned a pair with b away from 0 and a boundary
\* error that is not zero
C13_Witness ==
    /\ pc = "idle"
    /\ ret.op = "fit_parameters"
    /\ self.span = Zero
    /\ FGreater(self.diameter, Zero)
    /\ FGreater(self.b, Zero)
    /\ FGreater(error, Zero)

\* C14: for every sample count n >= 1 plot returns exactly n x-values
\* x_i = i * span / (n - 1), the first 0 and the last span, each paired with
\* y(x_i), and (markers shown) the endpoint markers (0, diameter / 2) and
\* (span, diameter / 2); the result is what a repeated call in the same
\* state computes.
C14_Sampling ==
    (pc = "idle" /\ ret.op = "plot" /\ ret.args[1] >= 1) =>
        /\ ret.raised = "none"
        /\ DOMAIN ret.val.x = 1..ret.args[1]
        /\ DOMAIN ret.val.y = 1..ret.args[1]
        /\ ret.val.x[1] = Zero
        /\ ret.val.x[ret.args[1]] = self.span
        /\ \A i \in 1..ret.args[1] :
              /\ ret.val.x[i] = FDiv(FMul(FromInt(i - 1), self.span),
                                     FromInt(ret.args[1] - 1))
              /\ ret.val.y[i] = y(self, ret.val.x[i]).value
        /\ ret.args[3] =>
              ret.val.endpoints = << <<Zero, FDiv(self.diameter, Two)>>,
                                     <<self.span, FDiv(self.diameter, Two)>> >>
        /\ ret.val = plot(self, ret.args[1], ret.args[2], XRangeArg,
                          ret.args[3]).value

\* C15: when plot is given an x_range, the x-values it samples are evenly
\* spaced over that range, from its lower bound to its upper bound.
C15_CallerDomain ==
    (pc = "idle" /\ ret.op = "plot" /\ ret.raised = "none" /\ ret.args[2]) =>
        /\ ret.val.x[1] = XRangeArg[1]
        /\ ret.val.x[ret.args[1]] = XRangeArg[2]
        /\ \A i \in 1..ret.args[1] :
              ret.val.x[i] =
                 FAdd(XRangeArg[1],
                      FDiv(FMul(FromInt(i - 1), FSub(XRangeArg[2], XRangeArg[1])),
                           FromInt(ret.args[1] - 1)))

\* C16: calls on distinct instances do not interfere.  A call that has
\* returned, with no other call begun on its instance, has returned and
\* stored the pair the same call returns when run alone; and a step changes
\* an instance only if the stepping call runs on that instance, changes its
\* a or b only by storing, and never changes a diameter or a span.
C16_Independent ==
    /\ [](\A t \in Threads :
             (/\ threads[t].pc = "done"
              /\ \A u \in Threads \ {t} :
                    threads[u].pc = "idle" \/ threads[u].obj # threads[t].obj)
             => /\ threads[t].ret = alone[threads[t].obj][threads[t].precision]
                /\ <<objs[threads[t].obj].a, objs[threads[t].obj].b>>
                      = threads[t].ret)
    /\ [][\A i \in Insts :
             /\ objs'[i].diameter = objs[i].diameter
             /\ objs'[i].span = objs[i].span
             /\ objs'[i] # objs[i] =>
                   \E t \in Threads :
                      /\ threads[t].obj = i
                      /\ threads[t].pc \in {"loop", "break", "store_b"}
                      /\ threads'[t].pc \in {"store_b", "done"}
                      /\ \A u \in Threads \ {t} : threads'[u] = threads[u]]_vars

\* two calls with different precisions have returned on different
\* instances, after running interleaved
C16_Witness ==
    /\ threads[1].pc = "done"
    /\ threads[2].pc = "done"
    /\ threads[1].obj # threads[2].obj
    /\ threads[1].precision # threads[2].precision
    /\ threads[1].ret # threads[2].ret

\* C17: two calls on one instance race on the stores of line 81.  When both
\* have returned, each has returned the pair it returns alone, and the
\* stored a is the a of one of them and the stored b the b of one of them:
\* possibly the a of one call with the b of the other.
C17_UnguardedStores ==
    (/\ threads[1].pc = "done"
     /\ threads[2].pc = "done"
     /\ threads[1].obj = threads[2].obj)
    => /\ \A t \in Threads :
             threads[t].ret = alone[threads[t].obj][threads[t].precision]
       /\ objs[threads[1].obj].a \in {threads[1].ret[1], threads[2].ret[1]}
       /\ objs[threads[1].obj].b \in {threads[1].ret[2], threads[2].ret[2]}

\* two calls with different precisions have returned on one instance, and
\* the stored pair is the pair neither of them returned
C17_Witness ==
    /\ threads[1].pc = "done"
    /\ threads[2].pc = "done"
    /\ threads[1].obj = threads[2].obj
    /\ threads[1].precision # threads[2].precision
    /\ <<objs[threads[1].obj].a, objs[threads[1].obj].b>>
          \notin {threads[1].ret, threads[2].ret}

\* C18: an iteration evaluates the nine points {a-s, a, a+s} x {b-s, b, b+s}
\* around the incumbent it started with, in scan order (a outer, b inner,
\* ascending), the centre included.  If some point is strictly better than
\* the incumbent, the incumbent becomes the first point in scan order that
\* attains the minimum error; otherwise the incumbent is kept.
C18_NinePointScan ==
    [][(pc = "loop" /\ pc' \in {"loop", "break"}) =>
          /\ DOMAIN scanned' = 1..9
          /\ \A i \in 1..9 :
                /\ scanned'[i].a = Candidates(a, b, step)[i].a
                /\ scanned'[i].b = Candidates(a, b, step)[i].b
                /\ scanned'[i].error
                      = _boundary_error(self, scanned'[i].a, scanned'[i].b)
          /\ <<scanned'[5].a, scanned'[5].b>> = <<a, b>>
          /\ IF \E i \in 1..9 : FLess(scanned'[i].error, error)
             THEN \E i \in 1..9 :
                     /\ \A j \in 1..9 :
                           ~FLess(scanned'[j].error, scanned'[i].error)
                     /\ \A j \in 1..(i - 1) :
                           FLess(scanned'[i].error, scanned'[j].error)
                     /\ <<a', b', error'>>
                           = <<scanned'[i].a, scanned'[i].b, scanned'[i].error>>
                     /\ improved'
             ELSE <<a', b', error'>> = <<a, b, error>> /\ ~improved']_vars

\* an iteration has adopted the first of two points that tie for the
\* minimum error
C18_Witness ==
    /\ pc = "loop"
    /\ improved
    /\ \E i \in 1..9, j \in 1..9 :
          /\ i < j
          /\ scanned[i].error = scanned[j].error
          /\ <<scanned[i].a, scanned[i].b, scanned[i].error>> = <<a, b, error>>
          /\ <<scanned[j].a, scanned[j].b>> # <<a, b>>

\* C19: an iteration without improvement divides the step by
\* STEP_REDUCTION_FACTOR, keeps the incumbent (a, b) and its error, and ends
\* the search exactly when the new step is strictly below precision; an
\* iteration with improvement keeps the step and goes on.  The step changes
\* in no other way, never increases, and is DEFAULT_STEP / 10^k.
C19_StepSchedule ==
    [][/\ (pc = "loop" /\ pc' \in {"loop", "break"}) =>
             /\ ~improved' =>
                   /\ step' = FDiv(step, STEP_REDUCTION_FACTOR)
                   /\ <<a', b', error'>> = <<a, b, error>>
                   /\ pc' = "break" <=> FLess(step', precision)
             /\ improved' => step' = step /\ pc' = "loop"
             /\ FLessEq(step', step)
             /\ \E k \in 0..MaxIterations : step' = [m |-> 1000, e |-> -4 - k]
       /\ (pc \in {"loop", "break"} /\ pc' = "idle") => step' = step]_vars

\* an iteration without improvement has shrunk the step to exactly
\* precision, and the search goes on
C19_Witness ==
    /\ pc = "loop"
    /\ scanned # <<>>
    /\ ~improved
    /\ step = precision
    /\ FGreater(error, precision)

\* C20: a scan starts only while the incumbent error is above precision;
\* once the incumbent error is <= precision at the loop test, the next step
\* of the call is its return, which evaluates no candidate and returns and
\* stores that incumbent.
C20_StopsWhenConverged ==
    [][/\ (pc = "loop" /\ pc' \in {"loop", "break"}) =>
             FGreater(error, precision)
       /\ (pc = "loop" /\ FLessEq(error, precision)) =>
             /\ pc' = "idle"
             /\ ret'.op = "fit_parameters"
             /\ ret'.raised = "none"
             /\ ret'.val = <<a, b>>
             /\ <<self'.a, self'.b>> = <<a, b>>
             /\ <<scanned', iterations'>> = <<scanned, iterations>>]_vars

\* a fit has returned right after an improving iteration brought the error
\* to precision or below, the step never having shrunk
C20_Witness ==
    /\ pc = "idle"
    /\ ret.op = "fit_parameters"
    /\ improved
    /\ FLessEq(error, precision)
    /\ FGreater(error, Zero)
    /\ step = DEFAULT_STEP

\* C21: a fit_parameters call with precision > 0 returns a pair whose
\* boundary error is <= precision, or it ended by step underflow and then
\* none of the 8 neighbours of the returned pair at the last scanned step
\* (10 times the final step) has a strictly smaller boundary error.
C21_Postcondition ==
    (pc = "idle" /\ ret.op = "fit_parameters" /\ FGreater(precision, Zero)) =>
        \/ FLessEq(_boundary_error(self, ret.val[1], ret.val[2]), precision)
        \/ /\ FLess(step, precision)
           /\ \A i \in 1..9 :
                 ~FLess(_boundary_error(self,
                           Candidates(ret.val[1], ret.val[2],
                                      FMul(step, Ten))[i].a,
                           Candidates(ret.val[1], ret.val[2],
                                      FMul(step, Ten))[i].b),
                        _boundary_error(self, ret.val[1], ret.val[2]))

\* a fit for span 0.6 has ended by step underflow with an error above
\* precision, away from the starting point
C21_Witness ==
    /\ pc = "idle"
    /\ ret.op = "fit_parameters"
    /\ self.span = [m |-> 6000, e |-> -4]
    /\ FLess(step, precision)
    /\ FGreater(_boundary_error(self, ret.val[1], ret.val[2]), precision)
    /\ ret.val # <<DEFAULT_A, DEFAULT_B>>

\* C22: every fit_parameters call starts its search from (DEFAULT_A,
\* DEFAULT_B), DEFAULT_STEP and the error INF whatever pair the instance
\* stores, and returns the pair a call on a freshly constructed instance of
\* the same diameter and span returns for that precision.
C22_RestartsFromDefaults ==
    /\ [][(pc = "idle" /\ pc' = "loop") =>
             /\ <<a', b'>> = <<DEFAULT_A, DEFAULT_B>>
             /\ step' = DEFAULT_STEP
             /\ error' = INF]_vars
    /\ []((pc = "idle" /\ ret.op = "fit_parameters") =>
             ret.val = fit_parameters(__init__(self.diameter, self.span),
                                      precision))

\* a later call is searching again from the defaults while the instance
\* stores the pair an earlier call fitted
C22_Witness ==
    /\ pc = "loop"
    /\ fitted
    /\ <<self.a, self.b>> # <<DEFAULT_A, DEFAULT_B>>
    /\ iterations = 1
    /\ <<a, b>> # <<self.a, self.b>>

\* C23: if the boundary error of the starting point (DEFAULT_A, DEFAULT_B)
\* is already <= precision (and below INF), fit_parameters returns
\* (DEFAULT_A, DEFAULT_B).
C23_StartAlreadyConverged ==
    (/\ pc = "idle"
     /\ ret.op = "fit_parameters"
     /\ FLessEq(_boundary_error(self, DEFAULT_A, DEFAULT_B), precision)
     /\ FLess(_boundary_error(self, DEFAULT_A, DEFAULT_B), INF))
    => ret.val = <<DEFAULT_A, DEFAULT_B>>

\* ---------------------------------------------------------------------
\* build.py: which targets a run of the build script builds
\* ---------------------------------------------------------------------

\* the most targets a configuration holds
MaxTargets == 2

\* target names of the default configuration
TargetNames == {"github_pages", "static_site", "local"}

\* a target's 'enabled' key: true, false, or not there
EnabledValues == {"true", "false", "absent"}

TargetConfigs == [name : TargetNames, enabled : EnabledValues]

\* the "targets" table, in the order of the file; a name occurs once
Configs == { c \in UNION { [1..n -> TargetConfigs] : n \in 0..MaxTargets } : \A i \in DOMAIN c : \A j \in DOMAIN c : c[i].name = c[j].name => i = j }

\* main's target argument; "None" is the default
TargetArgs == TargetNames \cup {"None"}

\* how a call of build_target ends: what publish returned, or an
\* exception of an export, the index template or a copy
BuildOutcomes == {"True", "False", "raise"}

\* target_config.get("enabled", False), with any enabled value
EnabledUnlessFalse(target_config) == target_config.enabled # "false"

\* target_config.get("enabled", False)
IsEnabled(target_config) == target_config.enabled = "true"

\* target in targets
Configured(config, target) == \E i \in DOMAIN config : config[i].name = target

\* targets[target]
Lookup(config, target) == config[CHOOSE i \in DOMAIN config : config[i].name = target]

\* a process that enters at main or at build_all
Started(entry, config, target) == [pc |-> "start", entry |-> entry, config |-> config, target |-> target, i |-> 1, calls |-> <<>>, log |-> "none"]

BuildInit ==
    /\ \E config \in Configs :
          \/ \E target \in TargetArgs : build = Started("main", config, target)
          \/ build = Started("build_all", config, "None")
    /\ nb = NoNotebook
    /\ pc = "new"
    /\ self = __init__(Zero, Zero)
    /\ precision = Zero /\ step = Zero /\ error = Zero /\ a = Zero /\ b = Zero
    /\ improved = FALSE /\ iterations = 0 /\ scanned = <<>>
    /\ ret = Finished("none", <<>>, Ok(Zero))
    /\ fitted = FALSE
    /\ objs = <<>> /\ threads = <<>> /\ alone = <<>>

\* where main goes after reading the configuration (lines 423-435)
MainBranch(config, target) ==
    IF config = <<>> THEN [pc |-> "done", log |-> "no_targets_found"]
    ELSE IF target # "None"
         THEN IF Configured(config, target) /\ IsEnabled(Lookup(config, target))
              THEN [pc |-> "build_target", log |-> "none"]
              ELSE [pc |-> "done", log |-> "not_found_or_not_enabled"]
         ELSE [pc |-> "build_all", log |-> "none"]

\* main up to its call of build_target or build_all
main ==
    /\ build.pc = "start" /\ build.entry = "main"
    /\ build' = [build EXCEPT !.pc = MainBranch(build.config, build.target).pc, !.log = MainBranch(build.config, build.target).log]
    /\ UNCHANGED <<nb, seq, par>>

\* main's build of the one target, and its last line
main_build_target(outcome) ==
    /\ build.pc = "build_target"
    /\ build' = [build EXCEPT !.calls = Append(@, build.target), !.pc = IF outcome = "raise" THEN "raised" ELSE "done", !.log = IF outcome = "raise" THEN "none" ELSE "success"]
    /\ UNCHANGED <<nb, seq, par>>

\* build_all up to its loop, when it is the entry point
build_all ==
    /\ build.pc = "start" /\ build.entry = "build_all"
    /\ build' = [build EXCEPT !.pc = IF build.config = <<>> THEN "done" ELSE "build_all", !.log = IF build.config = <<>> THEN "no_targets_enabled" ELSE "none"]
    /\ UNCHANGED <<nb, seq, par>>

\* one target of the loop that was skipped
build_all_skip ==
    /\ build.pc = "build_all" /\ build.i <= Len(build.config)
    /\ ~IsEnabled(build.config[build.i])
    /\ build' = [build EXCEPT !.i = @ + 1]
    /\ UNCHANGED <<nb, seq, par>>

\* one target of the loop that was built; an exception of build_target
\* leaves the loop and build_all
build_all_build_target(outcome) ==
    /\ build.pc = "build_all" /\ build.i <= Len(build.config)
    /\ IsEnabled(build.config[build.i])
    /\ build' = [build EXCEPT !.calls = Append(@, build.config[build.i].name), !.i = IF outcome = "raise" THEN @ ELSE @ + 1, !.pc = IF outcome = "raise" THEN "raised" ELSE @]
    /\ UNCHANGED <<nb, seq, par>>

\* the loop is over; main logs its last line
build_all_return ==
    /\ build.pc = "build_all" /\ build.i > Len(build.config)
    /\ build' = [build EXCEPT !.pc = "done", !.log = IF build.entry = "main" THEN "success" ELSE "none"]
    /\ UNCHANGED <<nb, seq, par>>

BuildNext ==
    \/ main
    \/ \E outcome \in BuildOutcomes : main_build_target(outcome)
    \/ build_all
    \/ build_all_skip
    \/ \E outcome \in BuildOutcomes : build_all_build_target(outcome)
    \/ build_all_return

BuildSpec == BuildInit /\ [][BuildNext]_vars

\* the names of the targets whose 'enabled' is true, in configuration order
C24_EnabledNames == [k \in 1..Len(SelectSeq(build.config, LAMBDA tc : tc.enabled = "true")) |-> SelectSeq(build.config, LAMBDA tc : tc.enabled = "true")[k].name]

\* the build_target calls the run is to make: every enabled target for
\* build_all, the target alone for main(target=X) with X configured and
\* enabled, none otherwise
C24_Expected ==
    IF build.config = <<>> THEN <<>>
    ELSE IF build.entry = "main" /\ build.target # "None"
         THEN IF \E i \in DOMAIN build.config : build.config[i].name = build.target /\ build.config[i].enabled = "true" THEN <<build.target>> ELSE <<>>
         ELSE C24_EnabledNames

MaxHeader == 1

MaxCells == 3

MaxCellLines == 3

\* a cell has its "@app.cell" line and its "def" line at least
CellLengths == 2..MaxCellLines

\* the lines of cell k, numbered from its "@app.cell" line; cell 0 is
\* what comes before the first cell
CellLines(k, n) == [j \in 1..n |-> [cell |-> k, line |-> j]]

RECURSIVE Cells(_, _)
Cells(lens, k) == IF k > Len(lens) THEN <<>> ELSE CellLines(k, lens[k]) \o Cells(lens, k + 1)

\* f.readlines() of a notebook
Notebook(header, lens) == CellLines(0, header) \o Cells(lens, 1)

\* line.strip().startswith("@app.cell")
IsCellStart(l) == l.cell > 0 /\ l.line <= 1

StartIndexes(lines) == { i \in 1..Len(lines) : IsCellStart(lines[i]) }

\* a set of numbers in ascending order
Ascending(S) == [k \in 1..Cardinality(S) |-> CHOOSE i \in S : Cardinality({ j \in S : j < i }) = k - 1]

\* the 0-based indexes of the "@app.cell" lines, then len(lines);
\* cell_starts[idx] of the code is cell_starts(lines)[idx + 1]
cell_starts(lines) == [k \in 1..(Cardinality(StartIndexes(lines)) + 1) |-> IF k <= Cardinality(StartIndexes(lines)) THEN Ascending(StartIndexes(lines))[k] - 1 ELSE Len(lines)]

\* new_cell_code of cell idx: one string, hence one element of lines
new_cell(idx) == [cell |-> idx + 1, line |-> 0]

\* the bounds of a slice, as a list clips them
SliceLo(lines, start) == IF start > Len(lines) THEN Len(lines) ELSE start

SliceHi(lines, start, end) == IF end > Len(lines) THEN Len(lines) ELSE IF end < SliceLo(lines, start) THEN SliceLo(lines, start) ELSE end

\* lines[start:end] = new
SliceAssign(lines, start, end, new) == SubSeq(lines, 1, SliceLo(lines, start)) \o new \o SubSeq(lines, SliceHi(lines, start, end) + 1, Len(lines))

\* lines 270-272 with the cell starts found once, before any replacement
ReplaceCell(lines, starts, idx) == SliceAssign(lines, starts[idx + 1], starts[idx + 2], <<new_cell(idx)>>)

\* a run on a notebook whose cells in inlined hold an import to inline
Opened(lines, inlined) == [pc |-> "read", orig |-> lines, inlined |-> inlined, lines |-> <<>>, cell_starts |-> <<>>, replacements |-> <<>>, out |-> <<>>]

InlineInit ==
    /\ \E header \in 0..MaxHeader : \E n \in 1..MaxCells : \E lens \in [1..n -> CellLengths] : \E inlined \in SUBSET (0..(n - 1)) :
          nb = Opened(Notebook(header, lens), inlined)
    /\ build = NoBuild
    /\ pc = "new"
    /\ self = __init__(Zero, Zero)
    /\ precision = Zero /\ step = Zero /\ error = Zero /\ a = Zero /\ b = Zero
    /\ improved = FALSE /\ iterations = 0 /\ scanned = <<>>
    /\ ret = Finished("none", <<>>, Ok(Zero))
    /\ fitted = FALSE
    /\ objs = <<>> /\ threads = <<>> /\ alone = <<>>

\* lines 205-265: read the lines, find the cell starts, prepare the
\* replacements, keyed by cell index in the order the cells were scanned
inline_read ==
    /\ nb.pc = "read"
    /\ nb' = [nb EXCEPT !.pc = "replace", !.lines = nb.orig, !.cell_starts = cell_starts(nb.orig), !.replacements = Ascending(nb.inlined)]
    /\ UNCHANGED <<build, seq, par>>

\* lines 268-272: one turn of the loop over replacements.items()
inline_replace ==
    /\ nb.pc = "replace" /\ nb.replacements # <<>>
    /\ nb' = [nb EXCEPT !.lines = ReplaceCell(nb.lines, nb.cell_starts, Head(nb.replacements)), !.replacements = Tail(@)]
    /\ UNCHANGED <<build, seq, par>>

\* lines 274-280: f.writelines(lines)
inline_write ==
    /\ nb.pc = "replace" /\ nb.replacements = <<>>
    /\ nb' = [nb EXCEPT !.pc = "written", !.out = nb.lines]
    /\ UNCHANGED <<build, seq, par>>

InlineNext ==
    \/ inline_read
    \/ inline_replace
    \/ inline_write

InlineSpec == InlineInit /\ [][InlineNext]_vars

\* the notebook with each inlined cell's lines replaced by its new cell
\* and every other line kept
C25_Expected == [k \in 1..Len(SelectSeq(nb.orig, LAMBDA l : (l.cell - 1) \notin nb.inlined \/ l.line = 1)) |-> IF (SelectSeq(nb.orig, LAMBDA l : (l.cell - 1) \notin nb.inlined \/ l.line = 1)[k].cell - 1) \in nb.inlined THEN new_cell(SelectSeq(nb.orig, LAMBDA l : (l.cell - 1) \notin nb.inlined \/ l.line = 1)[k].cell - 1) ELSE SelectSeq(nb.orig, LAMBDA l : (l.cell - 1) \notin nb.inlined \/ l.line = 1)[k]]

\* C25: in the notebook written by a run that inlined several cells,
\* each replacement has overwritten exactly the lines of its own cell and
\* every line of every other cell is as it was read.
C25_OwnCellOnly == (nb.pc = "written") => nb.out = C25_Expected

====
